---------------------------- MODULE Spec2Model ----------------------------
(***************************************************************************)
(* Raster change-detection pipeline of the backend:                        *)
(*   scraper.py         deforestation_monitor (NDVI/NBR differencing)      *)
(*   irrigation.py      detect_irrigation (NDWI + VV dB fusion)            *)
(*   gee_urban_heat.py  get_landsat_urban_heat_gee (zonal LST statistics)  *)
(* and the glue around it:                                                 *)
(*   scraper.py         get_sentinel_token (credential rotation)           *)
(*   main.py            Gemini key fallback, chat, chat history            *)
(*                                                                         *)
(* Numbers.  A float is modelled by the real number it stands for, held as *)
(* a reduced fraction [n, d] with d > 0; the three IEEE specials are the   *)
(* fractions with d = 0: NaN = 0/0, +Inf = 1/0, -Inf = -1/0.  Arithmetic   *)
(* and comparisons follow IEEE-754 on the specials (every comparison with  *)
(* NaN is false); rounding error of float32/float64 is not modelled.       *)
(***************************************************************************)
EXTENDS Integers, Sequences, FiniteSets, TLC

VARIABLES
    pc,          \* where the request being served stands
    bbox,        \* its bounding box
    ref_arr,     \* deforestation_monitor: raster of the reference period
    recent_arr,  \* deforestation_monitor: raster of the recent period
    thresholds,  \* detect_irrigation: <<ndwi_threshold, vv_db_threshold>>
    rasters,     \* detect_irrigation: s1_ref_arr, s1_rec_arr, s2_ref_arr, s2_rec_arr
    dataMasks,   \* dataMask band of the samples behind those four rasters
    scene_date,  \* get_landsat_urban_heat_gee: scene_date of the request
    image,       \* the Landsat image Earth Engine found for it
    acquisitions, \* number of times the call asked Earth Engine for scenes
    result,      \* the value the handler returned
    SENTINEL_CREDS,        \* scraper.py: which credential sets the environment holds
    current_sentinel_idx,  \* scraper.py: _current_sentinel_idx
    token_calls,           \* the calls of get_sentinel_token, one per caller
    token_log,             \* what the completed calls of get_sentinel_token gave
    GEMINI_KEYS,           \* main.py: which API keys the environment holds
    current_gemini_idx,    \* main.py: _current_gemini_idx
    model,                 \* main.py: the _GeminiModelWithFallback of the module
    gemini_call,           \* the last call made through it and what it gave
    chat_pc,               \* main.py: where the /api/chat request being served stands
    chat_req,              \* the request, the locals of chat and the calls it made
    chat_history_file,     \* main.py: content of CHAT_HISTORY_FILE
    history_response       \* the last response of a chat-history endpoint

\* State of the raster handlers, and state of the credential rotation.
handler_vars == <<pc, bbox, ref_arr, recent_arr, thresholds, rasters, dataMasks,
                  scene_date, image, acquisitions, result>>
sentinel_vars == <<SENTINEL_CREDS, current_sentinel_idx, token_calls, token_log>>
gemini_vars == <<GEMINI_KEYS, current_gemini_idx, model, gemini_call>>
chat_vars == <<chat_pc, chat_req>>
history_vars == <<chat_history_file, history_response>>
glue_vars == <<sentinel_vars, gemini_vars, chat_vars, history_vars>>

vars == <<handler_vars, glue_vars>>

\* Number of pixels of the raster a request asks for; rasters are one row
\* high: shape (1, NPix).
NPix == 2

Pixels == 1..NPix

\* Widths of the rasters the Process API can answer with: the width asked
\* for, a single column, or one column more.
Widths == {1, NPix, NPix + 1}

-----------------------------------------------------------------------------
(* Floats *)

Abs(i) == IF i < 0 THEN -i ELSE i

RECURSIVE GCD(_, _)
GCD(a, b) == IF b = 0 THEN a ELSE GCD(b, a % b)

Sgn(i) == IF i > 0 THEN 1 ELSE IF i < 0 THEN -1 ELSE 0

\* The float n/d (d may be negative or zero), in canonical form.
Rat(n, d) ==
    IF d = 0 THEN [n |-> Sgn(n), d |-> 0]
    ELSE LET g == GCD(Abs(n), Abs(d))
         IN  [n |-> Sgn(d) * (n \div g), d |-> Abs(d) \div g]

NaN == [n |-> 0, d |-> 0]
Zero == [n |-> 0, d |-> 1]
Int2F(i) == [n |-> i, d |-> 1]

isnan(x) == x.d = 0 /\ x.n = 0
isinf(x) == x.d = 0 /\ x.n # 0
isfinite(x) == x.d # 0

Neg(x) == [n |-> -x.n, d |-> x.d]

Add(x, y) ==
    IF isnan(x) \/ isnan(y) THEN NaN
    ELSE IF isinf(x) THEN (IF isinf(y) /\ y.n # x.n THEN NaN ELSE x)
    ELSE IF isinf(y) THEN y
    ELSE LET g == GCD(x.d, y.d)
         IN  Rat(x.n * (y.d \div g) + y.n * (x.d \div g), (x.d \div g) * y.d)

Sub(x, y) == Add(x, Neg(y))

Mul(x, y) ==
    IF isnan(x) \/ isnan(y) THEN NaN
    ELSE IF isinf(x) \/ isinf(y)
         THEN (IF x.n = 0 \/ y.n = 0 THEN NaN ELSE Rat(Sgn(x.n) * Sgn(y.n), 0))
    ELSE LET g1 == GCD(Abs(x.n), y.d)
             g2 == GCD(Abs(y.n), x.d)
         IN  Rat((x.n \div g1) * (y.n \div g2), (x.d \div g2) * (y.d \div g1))

\* IEEE division: x/0 is +-Inf for x # 0 and NaN for x = 0.
Div(x, y) ==
    IF isnan(x) \/ isnan(y) THEN NaN
    ELSE IF isinf(y) THEN (IF isinf(x) THEN NaN ELSE Zero)
    ELSE IF isinf(x) THEN Rat(x.n * (IF y.n < 0 THEN -1 ELSE 1), 0)
    ELSE IF y.n = 0 THEN Rat(x.n, 0)
    ELSE LET g1 == GCD(Abs(x.n), Abs(y.n))
             g2 == GCD(x.d, y.d)
         IN  Rat((x.n \div g1) * (y.d \div g2), (x.d \div g2) * (y.n \div g1))

Gt(x, y) ==
    IF isnan(x) \/ isnan(y) THEN FALSE
    ELSE IF isinf(x) THEN x.n = 1 /\ ~(isinf(y) /\ y.n = 1)
    ELSE IF isinf(y) THEN y.n = -1
    ELSE LET g  == GCD(x.d, y.d)
             fx == x.n \div x.d
             fy == y.n \div y.d
         IN  IF fx # fy THEN fx > fy
             ELSE (x.n - fx * x.d) * (y.d \div g) > (y.n - fy * y.d) * (x.d \div g)

Lt(x, y) == Gt(y, x)
Le(x, y) == ~isnan(x) /\ ~isnan(y) /\ ~Gt(x, y)
Ge(x, y) == Le(y, x)

FAbs(x) == [n |-> Abs(x.n), d |-> x.d]

\* round(x, k) of a finite x, to the nearest multiple of 10^-k, ties to even.
RECURSIVE Pow10(_)
Pow10(k) == IF k = 0 THEN 1 ELSE 10 * Pow10(k - 1)

round(x, k) ==
    IF ~isfinite(x) THEN x
    ELSE LET ip == x.n \div x.d
             g  == GCD(Pow10(k), x.d)
             nn == (x.n - ip * x.d) * (Pow10(k) \div g)
             dd == x.d \div g
             q  == nn \div dd
             r  == nn - q * dd
             up == 2 * r > dd \/ (2 * r = dd /\ q % 2 = 1)
         IN  Add(Int2F(ip), Rat(IF up THEN q + 1 ELSE q, Pow10(k)))

\* Width of a raster of shape (1, w).
width_of(a) == Cardinality(DOMAIN a)

\* numpy broadcasting of two rasters of shapes (1, wa) and (1, wb): the
\* shapes are compatible when the widths are equal or one of them is 1;
\* otherwise the operation raises ValueError.
broadcastable(a, b) ==
    width_of(a) = width_of(b) \/ width_of(a) = 1 \/ width_of(b) = 1

broadcast_width(a, b) ==
    IF width_of(a) > width_of(b) THEN width_of(a) ELSE width_of(b)

\* Element p of a raster stretched to the broadcast shape.
at(a, p) == IF width_of(a) = 1 THEN a[1] ELSE a[p]

ValueError == [kind |-> "ValueError",
               raised |-> "operands could not be broadcast together"]

\* np.count_nonzero of a boolean raster.
count_nonzero(m) == Cardinality({p \in DOMAIN m : m[p]})

\* np.any of a boolean raster.
any(m) == \E p \in DOMAIN m : m[p]

RECURSIVE SumOver(_, _)
SumOver(f, S) ==
    IF S = {} THEN Zero
    ELSE LET p == CHOOSE q \in S : TRUE
         IN  Add(f[p], SumOver(f, S \ {p}))

\* np.nanmean(a[sel]): the mean of the non-NaN values among the selected
\* pixels; NaN (with a RuntimeWarning) when there is none.
nanmean(a, sel) ==
    LET S == {p \in DOMAIN a : sel[p] /\ ~isnan(a[p])}
    IN  IF S = {} THEN NaN
        ELSE Div(SumOver(a, S), Int2F(Cardinality(S)))

-----------------------------------------------------------------------------
(* Requests *)

\* BoundingBox: four floats, no validation.
BoundingBox(min_lon, min_lat, max_lon, max_lat) ==
    [min_lon |-> min_lon, min_lat |-> min_lat,
     max_lon |-> max_lon, max_lat |-> max_lat]

\* Bounding boxes of the requests: 0.01 deg x 0.01 deg across the equator,
\* 0.02 deg x 0.02 deg centred on latitude 60, and a box on the equator
\* with min_lon = 0.01 > max_lon = 0 and min_lat = max_lat = 0.
BBoxes ==
    { BoundingBox(Zero, Rat(-1, 200), Rat(1, 100), Rat(1, 200)),
      BoundingBox(Zero, Rat(5999, 100), Rat(2, 100), Rat(6001, 100)),
      BoundingBox(Rat(1, 100), Zero, Zero, Zero) }

NoBBox == BoundingBox(NaN, NaN, NaN, NaN)

\* math.cos(math.radians(lat)), on the latitudes 0 and 60.
cos_radians(lat) ==
    CASE lat = Zero -> Int2F(1)
      [] lat = Int2F(60) -> Rat(1, 2)

deg2km == Rat(11132, 100)

\* width_km * height_km of a bounding box (equirectangular approximation).
bbox_area_km2(b) ==
    LET avg_lat   == Div(Add(b.min_lat, b.max_lat), Int2F(2))
        width_km  == Mul(Mul(FAbs(Sub(b.max_lon, b.min_lon)), deg2km),
                         cos_radians(avg_lat))
        height_km == Mul(FAbs(Sub(b.max_lat, b.min_lat)), deg2km)
    IN  Mul(width_km, height_km)

\* area_km2 of the boxes of BBoxes, computed once.
area_tbl == [b \in BBoxes |-> bbox_area_km2(b)]
area_km2(b) == area_tbl[b]

-----------------------------------------------------------------------------
(* scraper.py: get_sentinel_token *)

\* SENTINEL_CREDS holds three (client id, client secret) pairs.
NCreds == 3
CredIdx == 0..(NCreds - 1)

\* Number of callers that can be inside get_sentinel_token at once.
NCallers == 2
Callers == 1..NCallers

\* Both the id and the secret of every set are in the environment.
AllConfigured == [idx \in CredIdx |-> TRUE]

\* Answers of the token endpoint to one request: 2xx with or without an
\* access_token in the body, a status error, or a failure of the transport.
TokenResponses ==
    {[kind |-> "ok", access_token |-> t] : t \in BOOLEAN}
    \cup {[kind |-> "HTTPStatusError", status_code |-> st, quota_term |-> q] :
             st \in {403, 429, 500}, q \in BOOLEAN}
    \cup {[kind |-> "Exception"]}

NoResponse == [kind |-> "none"]

is_quota_error_any_body(r) == r.status_code \in {429, 403}

\* e.response.status_code in (429, 403) and any(term in e.response.text.lower()
\*     for term in ["bandwidth", "quota", "rate limit"])
is_quota_error(r) == r.status_code \in {429, 403} /\ r.quota_term

next_cred_any(creds, start_idx, i) == IF i < NCreds THEN i ELSE NCreds

\* The first pass i, i+1, ... of the for loop that does not "continue" at
\* "if not client_id or not client_secret"; NCreds when the loop runs out.
next_cred(creds, start_idx, i) ==
    LET passes == {j \in i..(NCreds - 1) : creds[(start_idx + j) % NCreds]}
    IN  IF passes = {} THEN NCreds
        ELSE CHOOSE j \in passes : \A k \in passes : j <= k

\* What a call gives its caller: the access token of credential set idx,
\* or the exception it raised.
NoValue == [kind |-> "none", idx |-> -1]
Token(idx) == [kind |-> "access_token", idx |-> idx]
Raised(kind) == [kind |-> kind, idx |-> -1]

NoCall ==
    [pc |-> "idle", start_idx |-> 0, i |-> 0, idx |-> 0, requests |-> <<>>,
     attempts |-> <<>>, response |-> NoResponse, value |-> NoValue]

\* Nothing was called yet: no caller, no value, no token.
NoLog == [caller |-> 0, value |-> NoValue, access_token |-> NoValue]

\* The for loop from pass i on, up to its next await or to the raise that
\* follows it.
token_loop(call, creds, i) ==
    LET j == next_cred(creds, call.start_idx, i)
        idx == (call.start_idx + j) % NCreds
    IN  IF j = NCreds
        THEN [call EXCEPT !.pc = "raised", !.value = Raised("RuntimeError")]
        ELSE [call EXCEPT !.pc = "awaiting", !.i = j, !.idx = idx,
                          !.requests = Append(@, idx)]

\* The value of the call that ended last, and the token returned last.
log_of(c, call, log) ==
    IF call.pc = "returned"
    THEN [caller |-> c, value |-> call.value, access_token |-> call.value]
    ELSE IF call.pc = "raised"
    THEN [log EXCEPT !.caller = c, !.value = call.value]
    ELSE log

index_after_kept(r, idx, current) == current

\* "_current_sentinel_idx = idx" follows raise_for_status() and precedes
\* r.json()["access_token"]: every 2xx answer assigns the index.
index_after(r, idx, current) == IF r.kind = "ok" THEN idx ELSE current

\* Caller c calls get_sentinel_token; the call runs to its first
\* "await client.post", or raises when no set is configured.
get_sentinel_token(c) ==
    /\ token_calls[c].pc # "awaiting"
    /\ LET call == token_loop([NoCall EXCEPT !.start_idx = current_sentinel_idx],
                              SENTINEL_CREDS, 0)
       IN  /\ token_calls' = [token_calls EXCEPT ![c] = call]
           /\ token_log' = log_of(c, call, token_log)
    /\ UNCHANGED <<SENTINEL_CREDS, current_sentinel_idx, gemini_vars, chat_vars,
                   history_vars>>

\* The token endpoint answers the request of caller c and the call runs to
\* its return, its raise or its next await.
get_sentinel_token_resume(c) ==
    /\ token_calls[c].pc = "awaiting"
    /\ \E r \in TokenResponses :
          LET call == [token_calls[c] EXCEPT !.response = r]
              failed(label) ==
                  token_loop([call EXCEPT !.attempts = Append(@, <<call.idx, label>>)],
                             SENTINEL_CREDS, call.i + 1)
              after ==
                  IF r.kind = "ok"
                  THEN IF r.access_token
                       THEN [call EXCEPT !.pc = "returned",
                                         !.value = Token(call.idx)]
                       ELSE failed("KeyError")
                  ELSE IF r.kind = "HTTPStatusError"
                  THEN IF is_quota_error(r)
                       THEN failed("quota exceeded")
                       ELSE [call EXCEPT !.pc = "raised",
                                         !.value = Raised("HTTPStatusError")]
                  ELSE failed("Exception")
          IN  /\ token_calls' = [token_calls EXCEPT ![c] = after]
              /\ current_sentinel_idx' =
                    index_after(r, call.idx, current_sentinel_idx)
              /\ token_log' = log_of(c, after, token_log)
    /\ UNCHANGED <<SENTINEL_CREDS, gemini_vars, chat_vars, history_vars>>

\* No call of get_sentinel_token is between its entry and its end.
NoCallInFlight == \A c \in Callers : token_calls[c].pc # "awaiting"

\* Import of scraper.py with the credential sets creds in the environment.
InitSentinel(creds) ==
    /\ SENTINEL_CREDS = creds
    /\ current_sentinel_idx = 0
    /\ token_calls = [c \in Callers |-> NoCall]
    /\ token_log = NoLog

-----------------------------------------------------------------------------
(* main.py: _GeminiModelWithFallback, _ChatSessionWithFallback *)

\* GEMINI_KEYS holds three API keys.
NKeys == 3
KeyIdx == 0..(NKeys - 1)

\* Every key is in the environment.
AllKeys == [idx \in KeyIdx |-> TRUE]

\* How the Gemini API answers a request made with a key: a result, an
\* exception _is_quota_error recognises, or another exception.
GeminiAnswers == {"result", "quota", "error"}

\* _configure_current_key after "_current_key_idx = idx": the model object
\* of the wrapper is built anew under key idx.
configure_current_key(idx) == [_current_key_idx |-> idx, _model |-> idx]

NoGeminiCall ==
    [op |-> "none", start_idx |-> 0, requests |-> <<>>, value |-> NoValue,
     session |-> -1,
     answers |-> [idx \in KeyIdx |-> "result"]]

RECURSIVE fallback_stale_session(_, _, _, _, _, _)
fallback_stale_session(w, session, requests, answers, start_idx, i) ==
    LET idx == (start_idx + i) % NKeys
        w1 == IF idx # w._current_key_idx THEN configure_current_key(idx) ELSE w
        used == IF session = -1 THEN w1._model ELSE session
        sent == Append(requests, [idx |-> idx, key |-> used])
    IN  IF i = NKeys
        THEN [model |-> w, session |-> session, requests |-> requests,
              value |-> Raised("RuntimeError")]
        ELSE IF ~GEMINI_KEYS[idx]
        THEN fallback_stale_session(w, session, requests, answers, start_idx, i + 1)
        ELSE IF answers[idx] = "result"
        THEN [model |-> w1, session |-> session, requests |-> sent,
              value |-> [kind |-> "result", idx |-> idx]]
        ELSE IF answers[idx] = "quota"
        THEN fallback_stale_session(w1, session, sent, answers, start_idx, i + 1)
        ELSE [model |-> w1, session |-> session, requests |-> sent,
              value |-> Raised("Exception")]

\* The for loop of generate_content (session = -1: the request goes through
\* the model object of the wrapper) and of send_message (session is the key
\* under which the chat session was started), from pass i on.  answers[idx]
\* is what a request under key idx meets.
RECURSIVE fallback(_, _, _, _, _, _)
fallback(w, session, requests, answers, start_idx, i) ==
    LET idx == (start_idx + i) % NKeys
        switch == idx # w._current_key_idx
        w1 == IF switch THEN configure_current_key(idx) ELSE w
        session1 == IF switch /\ session # -1 THEN w1._model ELSE session
        used == IF session = -1 THEN w1._model ELSE session1
        sent == Append(requests, [idx |-> idx, key |-> used])
    IN  IF i = NKeys
        THEN [model |-> w, session |-> session, requests |-> requests,
              value |-> Raised("RuntimeError")]
        ELSE IF ~GEMINI_KEYS[idx]
        THEN fallback(w, session, requests, answers, start_idx, i + 1)
        ELSE IF answers[idx] = "result"
        THEN [model |-> w1, session |-> session1, requests |-> sent,
              value |-> [kind |-> "result", idx |-> idx]]
        ELSE IF answers[idx] = "quota"
        THEN fallback(w1, session1, sent, answers, start_idx, i + 1)
        ELSE [model |-> w1, session |-> session1, requests |-> sent,
              value |-> Raised("Exception")]

\* The effect of one call through the wrapper on the state of main.py.
gemini_effect(op, answers, call) ==
    /\ model' = call.model
    /\ current_gemini_idx' =
          IF call.value.kind = "result" THEN call.value.idx ELSE current_gemini_idx
    /\ gemini_call' = [op |-> op, start_idx |-> model._current_key_idx,
                       requests |-> call.requests, value |-> call.value,
                       session |-> call.session, answers |-> answers]
    /\ UNCHANGED GEMINI_KEYS

\* model.generate_content(...)
generate_content ==
    /\ \E answers \in [KeyIdx -> GeminiAnswers] :
          gemini_effect("generate_content", answers,
                        fallback(model, -1, <<>>, answers, model._current_key_idx, 0))
    /\ UNCHANGED <<sentinel_vars, chat_vars, history_vars>>

\* chat_session = model.start_chat(...) followed by
\* chat_session.send_message(...), as every handler of main.py does it.
send_message ==
    /\ \E answers \in [KeyIdx -> GeminiAnswers] :
          gemini_effect("send_message", answers,
                        fallback(model, model._model, <<>>, answers,
                                 model._current_key_idx, 0))
    /\ UNCHANGED <<sentinel_vars, chat_vars, history_vars>>

\* Import of main.py with the keys in the environment: the wrapper is built
\* under key _current_gemini_idx = 0, which has to be set.
InitGemini(keys) ==
    /\ keys[0]
    /\ GEMINI_KEYS = keys
    /\ current_gemini_idx = 0
    /\ model = configure_current_key(0)
    /\ gemini_call = NoGeminiCall

-----------------------------------------------------------------------------
(* main.py: chat, call_satellite_api, analyze_api_results *)

Endpoints == {"/satellite/deforestation", "/irrigation/detect"}

\* Lists of recommended APIs of a first-pass reply, by their api_endpoint.
RecommendedApis ==
    {<<>>} \cup {<<e>> : e \in Endpoints}
           \cup {<<e, f>> : e \in Endpoints, f \in Endpoints}

\* First-pass replies of the model: text that is no JSON, a reply with the
\* key "missing_information", or a recommendation.
Replies ==
    {[kind |-> k, recommended_apis |-> <<>>, needs_geocoding |-> FALSE] :
        k \in {"not_json", "missing_information"}}
    \cup {[kind |-> "recommendation", recommended_apis |-> apis, needs_geocoding |-> g] :
             apis \in RecommendedApis, g \in BOOLEAN}

NoReply == [kind |-> "none", recommended_apis |-> <<>>, needs_geocoding |-> FALSE]

\* What call_satellite_api returns: the JSON of a 200 response (a result,
\* an empty one, or one that has an "error" key), or its own error dict.
ApiResults == {"result", "empty", "error"}

NoChat ==
    [execute_api |-> FALSE, reply |-> NoReply, bbox |-> "None", calls |-> <<>>,
     api_results |-> "None", results_analysis |-> "None", response |-> "none"]

should_execute_any_request(execute_api, recommended_apis) == recommended_apis # <<>>

\* if request.execute_api and recommended_apis:
should_execute(execute_api, recommended_apis) ==
    execute_api /\ recommended_apis # <<>>

\* if api_results and "error" not in api_results:
should_analyze(api_results) == api_results = "result"

\* chat from the end of geocoding to its next await or to its return.
execute_or_return(req) ==
    IF should_execute(req.execute_api, req.reply.recommended_apis)
    THEN /\ chat_pc' = "call_satellite_api"
         /\ chat_req' =
               [req EXCEPT !.calls =
                   Append(@, [fn |-> "call_satellite_api",
                              api_endpoint |-> req.reply.recommended_apis[1]])]
    ELSE /\ chat_pc' = "responded"
         /\ chat_req' = [req EXCEPT !.response = "ChatResponse"]

\* POST /api/chat: the first pass through the chat session, up to the first
\* await that follows it or to the response.
chat ==
    /\ chat_pc = "idle"
    /\ \E execute_api \in BOOLEAN, answers \in [KeyIdx -> GeminiAnswers],
          reply \in Replies :
          LET call == fallback(model, model._model, <<>>, answers,
                               model._current_key_idx, 0)
              req == [NoChat EXCEPT !.execute_api = execute_api]
          IN  /\ gemini_effect("send_message", answers, call)
              /\ IF call.value.kind # "result"
                 THEN /\ chat_pc' = "responded"
                      /\ chat_req' = [req EXCEPT !.response = "HTTPException 500"]
                 ELSE IF reply.kind = "not_json"
                 THEN /\ chat_pc' = "responded"
                      /\ chat_req' = [req EXCEPT !.reply = reply,
                                                 !.response = "ChatResponse"]
                 ELSE IF reply.kind = "missing_information"
                 THEN /\ chat_pc' = "responded"
                      /\ chat_req' = [req EXCEPT !.reply = reply,
                                                 !.response = "needs_more_info"]
                 ELSE IF reply.needs_geocoding
                 THEN /\ chat_pc' = "geocode_location"
                      /\ chat_req' = [req EXCEPT !.reply = reply]
                 ELSE execute_or_return([req EXCEPT !.reply = reply])
    /\ UNCHANGED <<sentinel_vars, history_vars>>

\* geocode_location returns a bounding box or None.
chat_geocoded ==
    /\ chat_pc = "geocode_location"
    /\ \E bbox_found \in {"BoundingBox", "None"} :
          execute_or_return([chat_req EXCEPT !.bbox = bbox_found])
    /\ UNCHANGED <<sentinel_vars, gemini_vars, history_vars>>

\* call_satellite_api returns; the second pass runs when its result allows,
\* and the response is built.
chat_api_returned ==
    /\ chat_pc = "call_satellite_api"
    /\ \E api_results \in ApiResults :
          IF should_analyze(api_results)
          THEN \E answers \in [KeyIdx -> GeminiAnswers] :
                  LET call == fallback(model, model._model, <<>>, answers,
                                       model._current_key_idx, 0)
                  IN  /\ gemini_effect("send_message", answers, call)
                      /\ chat_req' =
                            [chat_req EXCEPT
                               !.api_results = api_results,
                               !.calls = Append(@, [fn |-> "analyze_api_results",
                                                    api_endpoint |->
                                                       chat_req.calls[1].api_endpoint]),
                               !.results_analysis =
                                  IF call.value.kind = "result" THEN "analysis"
                                  ELSE "error",
                               !.response = "ChatResponse"]
          ELSE /\ chat_req' = [chat_req EXCEPT !.api_results = api_results,
                                               !.response = "ChatResponse"]
               /\ UNCHANGED gemini_vars
    /\ chat_pc' = "responded"
    /\ UNCHANGED <<sentinel_vars, history_vars>>

\* The response is sent; the locals of the call are gone.
chat_respond ==
    /\ chat_pc = "responded"
    /\ chat_pc' = "idle"
    /\ chat_req' = NoChat
    /\ UNCHANGED <<sentinel_vars, gemini_vars, history_vars>>

InitChat ==
    /\ chat_pc = "idle"
    /\ chat_req = NoChat

-----------------------------------------------------------------------------
(* main.py: get_chat_history, save_chat_history, delete_chat *)

\* Number of chats a saved history holds at most.
MaxChats == 3

ChatIds == {"a", "b"}

\* Stored chats: an id and the rest of the chat.
Chats == {[id |-> i, title |-> t] : i \in ChatIds, t \in {"t1", "t2"}}

Histories == UNION {[1..n -> Chats] : n \in 0..MaxChats}

\* os.path.exists(CHAT_HISTORY_FILE) is false.
NoFile == [exists |-> FALSE, chats |-> <<>>]

NoHistoryResponse == [op |-> "none", chat_id |-> "none", status |-> 0, chats |-> <<>>]

\* [c for c in data["chats"] if c["id"] != chat_id]
without(chats, chat_id) ==
    LET keep(c) == c.id # chat_id
    IN  SelectSeq(chats, keep)

\* GET /api/chat-history
get_chat_history ==
    /\ history_response' =
          [op |-> "get_chat_history", chat_id |-> "none", status |-> 200,
           chats |-> IF chat_history_file.exists THEN chat_history_file.chats
                     ELSE <<>>]
    /\ UNCHANGED <<chat_history_file, sentinel_vars, gemini_vars, chat_vars>>

\* POST /api/chat-history
save_chat_history ==
    /\ \E history \in Histories :
          chat_history_file' = [exists |-> TRUE, chats |-> history]
    /\ history_response' =
          [op |-> "save_chat_history", chat_id |-> "none", status |-> 200,
           chats |-> <<>>]
    /\ UNCHANGED <<sentinel_vars, gemini_vars, chat_vars>>

\* DELETE /api/chat-history/{chat_id}
delete_chat ==
    /\ \E chat_id \in ChatIds :
          IF chat_history_file.exists
          THEN /\ chat_history_file' =
                     [chat_history_file EXCEPT !.chats = without(@, chat_id)]
               /\ history_response' =
                     [op |-> "delete_chat", chat_id |-> chat_id, status |-> 200,
                      chats |-> <<>>]
          ELSE /\ history_response' =
                     [op |-> "delete_chat", chat_id |-> chat_id, status |-> 404,
                      chats |-> <<>>]
               /\ UNCHANGED chat_history_file
    /\ UNCHANGED <<sentinel_vars, gemini_vars, chat_vars>>

\* No history was saved yet.
InitHistory ==
    /\ chat_history_file = NoFile
    /\ history_response = NoHistoryResponse

-----------------------------------------------------------------------------
(* scraper.py: deforestation_monitor *)

\* Reflectances of the Sentinel-2 samples are multiples of 0.5e-6.
Refl(k) == Rat(k, 2000000)

Sample(b04, b08, b12, scl, dataMask) ==
    [B04 |-> Refl(b04), B08 |-> Refl(b08), B12 |-> Refl(b12),
     SCL |-> scl, dataMask |-> dataMask]

\* SCL classes the evalscript rejects: cloud shadow, cloud medium, cloud
\* high, thin cirrus, snow.
CloudClasses == {3, 8, 9, 10, 11}

\* Samples flagged by the evalscript: one per rejected SCL class, and one
\* without data.
FlaggedSamples ==
    { Sample(0, 3, 3, c, 1) : c \in CloudClasses } \cup { Sample(0, 0, 0, 0, 0) }

\* Samples of the reference scenes, one per output pixel: clear (SCL 4
\* vegetation, 5 bare soil) with (NDVI, NBR) = (0.6, 0), (0.3, -0.5),
\* (0.2, -0.2), (1, 0), and the flagged ones.
RefSamples ==
    { Sample(0, 3, 3, 4, 1), Sample(6, 12, 38, 4, 1), Sample(3, 5, 8, 4, 1),
      Sample(-1, 3, 3, 4, 1) } \cup FlaggedSamples

\* Samples of the recent scenes: clear with (NDVI, NBR) = (0.3, -0.5),
\* (0.1, -0.5), (0.2, -0.2), (-1, -1), (1, 0), (5/3, 0), and the flagged
\* ones.
RecentSamples ==
    { Sample(6, 12, 38, 4, 1), Sample(8, 10, 32, 5, 1), Sample(3, 5, 8, 4, 1),
      Sample(0, -1, 0, 5, 1), Sample(-1, 3, 3, 4, 1), Sample(-2, 3, 3, 4, 1) }
    \cup FlaggedSamples

EPS == Rat(1, 1000000)

\* evaluatePixel of the deforestation evalscript: [ndvi, nbr, mask].
evaluatePixel(s) ==
    LET isCloud == s.SCL \in CloudClasses
        ndvi == Div(Sub(s.B08, s.B04), Add(Add(s.B08, s.B04), EPS))
        nbr  == Div(Sub(s.B08, s.B12), Add(Add(s.B08, s.B12), EPS))
    IN  IF isCloud \/ s.dataMask = 0
        THEN <<NaN, NaN, 0>>
        ELSE <<ndvi, nbr, s.dataMask>>

\* post_process_api: the raster the Process API returns for a scene, as
\* bands indexed [band][pixel].
post_process_api(scene) ==
    [b \in 1..3 |-> [p \in DOMAIN scene |-> evaluatePixel(scene[p])[b]]]

\* The rasters the Process API can return for the two periods: of the
\* shape asked for in the reference period, of any width in the recent one.
RefRasters == {post_process_api(scene) : scene \in [Pixels -> RefSamples]}
RecentRasters ==
    UNION { {post_process_api(scene) : scene \in [1..w -> RecentSamples]} :
            w \in Widths }

NoArr == << >>
NoResult == [kind |-> "none"]
NoScene == [count |-> 0, LST |-> << >>, NDVI_mean |-> [n |-> -1, d |-> -1]]
NoThresholds == <<NaN, NaN>>
NoRasters == [s1_ref |-> NoArr, s1_rec |-> NoArr, s2_ref |-> NoArr, s2_rec |-> NoArr]
NoMasks == [s1_ref |-> NoArr, s1_rec |-> NoArr, s2_ref |-> NoArr, s2_rec |-> NoArr]

ndvi_thresh == Rat(3, 10)
nbr_thresh == Rat(2, 10)

\* Quality mask of the reference period.
ref_valid_of(ndvi, mask) ==
    [p \in DOMAIN ndvi |->
        ~isnan(ndvi[p]) /\ Gt(ndvi[p], Rat(2, 10)) /\ Lt(ndvi[p], Int2F(1))
        /\ mask[p] > 0]

\* Quality mask of the recent period.
rec_valid_of(ndvi, mask) ==
    [p \in DOMAIN ndvi |->
        ~isnan(ndvi[p]) /\ Gt(ndvi[p], Int2F(-1)) /\ Lt(ndvi[p], Int2F(1))
        /\ mask[p] > 0]

or_mask(a, b) == [p \in 1..broadcast_width(a, b) |-> at(a, p) \/ at(b, p)]

\* valid_mask = ref_valid & rec_valid
and_mask(a, b) == [p \in 1..broadcast_width(a, b) |-> at(a, p) /\ at(b, p)]

delta_where_swapped(valid, ref, rec) ==
    [p \in DOMAIN valid |->
        IF valid[p] THEN Sub(at(rec, p), at(ref, p)) ELSE NaN]

\* np.where(valid_mask, ref - rec, np.nan)
delta_where(valid, ref, rec) ==
    [p \in DOMAIN valid |->
        IF valid[p] THEN Sub(at(ref, p), at(rec, p)) ELSE NaN]

deforestation_mask_or(valid, dndvi, dnbr) ==
    [p \in DOMAIN valid |->
        valid[p] /\ (Gt(dndvi[p], ndvi_thresh) \/ Gt(dnbr[p], nbr_thresh))]

\* deforestation_mask = valid_mask & (dndvi > ndvi_thresh) & (dnbr > nbr_thresh)
deforestation_mask_of(valid, dndvi, dnbr) ==
    [p \in DOMAIN valid |->
        valid[p] /\ Gt(dndvi[p], ndvi_thresh) /\ Gt(dnbr[p], nbr_thresh)]

mean_unguarded(a, sel) == nanmean(a, sel)

\* "float(np.nanmean(a[sel])) if np.any(sel) else 0.0"
mean_or_zero(a, sel) == IF any(sel) THEN nanmean(a, sel) ELSE Zero

\* The computation of deforestation_monitor after both rasters arrived.
deforestation_result(b, ref, recent) ==
    LET ref_ndvi == ref[1]
        ref_nbr  == ref[2]
        ref_mask == ref[3]
        rec_ndvi == recent[1]
        rec_nbr  == recent[2]
        rec_mask == recent[3]
        ref_valid == ref_valid_of(ref_ndvi, ref_mask)
        rec_valid == rec_valid_of(rec_ndvi, rec_mask)
        valid_mask == and_mask(ref_valid, rec_valid)
        dndvi == delta_where(valid_mask, ref_ndvi, rec_ndvi)
        dnbr  == delta_where(valid_mask, ref_nbr, rec_nbr)
        deforestation_mask == deforestation_mask_of(valid_mask, dndvi, dnbr)
        deforested_pixels == count_nonzero(deforestation_mask)
        hw == Cardinality(DOMAIN deforestation_mask)
        pixel_area_km2 == Div(area_km2(b), Int2F(hw))
        deforested_area == Mul(Int2F(deforested_pixels), pixel_area_km2)
        valid_pixels_count == count_nonzero(valid_mask)
    IN  IF ~broadcastable(ref_valid, rec_valid) THEN ValueError
        ELSE
        [kind |-> "deforestation",
         deforested_pixels |-> deforested_pixels,
         deforested_area_km2 |-> round(deforested_area, 4),
         ndvi_mean_ref |-> mean_or_zero(ref_ndvi, ref_valid),
         ndvi_mean_recent |-> mean_or_zero(rec_ndvi, rec_valid),
         dnbr_mean |-> mean_or_zero(dnbr, valid_mask),
         valid_pixels |-> valid_pixels_count,
         valid_area_km2 |-> round(Mul(Int2F(valid_pixels_count), pixel_area_km2), 4),
         thresholds |-> [dNDVI |-> ndvi_thresh, dNBR |-> nbr_thresh],
         data_quality |->
            [ref_valid_pixels |-> count_nonzero(ref_valid),
             recent_valid_pixels |-> count_nonzero(rec_valid),
             cloud_free_overlap |-> valid_pixels_count],
         \* locals of the call, kept to state properties of the masks
         pixel_area_km2 |-> pixel_area_km2,
         deforested_area |-> deforested_area,
         valid_mask |-> valid_mask,
         dndvi |-> dndvi,
         dnbr |-> dnbr,
         deforestation_mask |-> deforestation_mask]

\* POST /satellite/deforestation, up to the first await returning: the
\* reference raster has arrived.
deforestation_monitor_ref ==
    /\ pc = "idle"
    /\ \E b \in BBoxes, arr \in RefRasters :
          /\ bbox' = b
          /\ ref_arr' = arr
    /\ pc' = "deforestation_recent"
    /\ UNCHANGED <<recent_arr, thresholds, rasters, dataMasks, scene_date, image,
                   acquisitions, result>>
    /\ UNCHANGED glue_vars

\* ... the recent raster arrives and the handler runs to its return.
deforestation_monitor_recent ==
    /\ pc = "deforestation_recent"
    /\ \E arr \in RecentRasters :
          /\ recent_arr' = arr
          /\ result' = deforestation_result(bbox, ref_arr, arr)
    /\ pc' = "responded"
    /\ UNCHANGED <<bbox, ref_arr, thresholds, rasters, dataMasks, scene_date, image,
                   acquisitions>>
    /\ UNCHANGED glue_vars

\* The response is sent; the locals of the call are gone.
respond ==
    /\ pc = "responded"
    /\ pc' = "idle"
    /\ bbox' = NoBBox
    /\ ref_arr' = NoArr
    /\ recent_arr' = NoArr
    /\ thresholds' = NoThresholds
    /\ rasters' = NoRasters
    /\ dataMasks' = NoMasks
    /\ scene_date' = 0
    /\ image' = NoScene
    /\ acquisitions' = 0
    /\ result' = NoResult
    /\ UNCHANGED glue_vars

\* No request is being served.
InitHandlers ==
    /\ pc = "idle"
    /\ bbox = NoBBox
    /\ ref_arr = NoArr
    /\ recent_arr = NoArr
    /\ thresholds = NoThresholds
    /\ rasters = NoRasters
    /\ dataMasks = NoMasks
    /\ scene_date = 0
    /\ image = NoScene
    /\ acquisitions = 0
    /\ result = NoResult

Init ==
    /\ InitHandlers
    /\ InitSentinel(AllConfigured)
    /\ InitGemini(AllKeys)
    /\ InitChat
    /\ InitHistory

-----------------------------------------------------------------------------
(* irrigation.py: detect_irrigation *)

\* Sentinel-1 samples [VV, VH, dataMask], linear backscatter.
S1Sample(vv, vh, dataMask) == [VV |-> vv, VH |-> vh, dataMask |-> dataMask]

\* Sentinel-2 samples [B03, B08, dataMask]; reflectances are multiples of
\* 0.5e-9.
S2Sample(b03, b08, dataMask) ==
    [B03 |-> Rat(b03, 2000000000), B08 |-> Rat(b08, 2000000000),
     dataMask |-> dataMask]

\* A pixel without data has dataMask 0 and every band 0.
S1NoData == S1Sample(Zero, Zero, 0)
S2NoData == S2Sample(0, 0, 0)

\* Reference scenes: VV 1 (0 dB) or 10 (10 dB).  Recent scenes: VV 1, VV
\* 1e-7 (a positive value below the floor of to_db), or no data.
S1RefSamples == { S1Sample(Int2F(1), Rat(1, 10), 1), S1Sample(Int2F(10), Int2F(1), 1) }
S1RecentSamples ==
    { S1Sample(Int2F(1), Rat(1, 10), 1), S1Sample(Rat(1, 10000000), Zero, 1),
      S1NoData }

\* Reference scenes: NDWI -0.2, or no data.  Recent scenes: NDWI -0.2 or
\* 0.2, B03 = 0 with B08 = -1e-9 (the sum is the negative of the epsilon
\* of safe_ndwi), or no data.
S2RefSamples == { S2Sample(3, 5, 1), S2NoData }
S2RecentSamples ==
    { S2Sample(3, 5, 1), S2Sample(5, 3, 1), S2Sample(0, -2, 1), S2NoData }

\* evaluatePixel of S1_EVALSCRIPT and of S2_EVALSCRIPT: dataMask is an input
\* band of both and is not returned.
S1_evaluatePixel(sample) == <<sample.VV, sample.VH>>
S2_evaluatePixel(sample) == <<sample.B03, sample.B08>>

\* post_process_api of irrigation.py with either evalscript.
S1_post_process_api(scene) ==
    [b \in 1..2 |-> [p \in DOMAIN scene |-> S1_evaluatePixel(scene[p])[b]]]
S2_post_process_api(scene) ==
    [b \in 1..2 |-> [p \in DOMAIN scene |-> S2_evaluatePixel(scene[p])[b]]]

\* (ndwi_threshold, vv_db_threshold) of the requests: the defaults
\* (0.05, 1.0), and callers' (0.4, 1.0), (0.05, 10.0), (0.05, -1.0),
\* (nan, 1.0), (0.05, nan).
ThresholdPairs ==
    { <<Rat(5, 100), Int2F(1)>>, <<Rat(4, 10), Int2F(1)>>,
      <<Rat(5, 100), Int2F(10)>>, <<Rat(5, 100), Int2F(-1)>>,
      <<NaN, Int2F(1)>>, <<Rat(5, 100), NaN>> }

EPS_NDWI == Rat(1, 1000000000)

\* safe_ndwi, at one pixel.
safe_ndwi_px(green, nir) ==
    LET denom == Add(green, nir)
    IN  IF denom = Zero THEN NaN
        ELSE Div(Sub(green, nir), Add(denom, EPS_NDWI))

safe_ndwi(green, nir) ==
    [p \in DOMAIN green |-> safe_ndwi_px(green[p], nir[p])]

\* np.log10 on NaN, +Inf and the exact powers of ten.
RECURSIVE log10(_)
log10(x) ==
    IF isnan(x) THEN NaN
    ELSE IF isinf(x) THEN x
    ELSE IF x = Int2F(1) THEN Zero
    ELSE IF x.d = 1 /\ x.n > 0 /\ x.n % 10 = 0
         THEN Add(Int2F(1), log10(Rat(x.n \div 10, 1)))
    ELSE IF x.n = 1 /\ x.d % 10 = 0
         THEN Sub(log10(Rat(1, x.d \div 10)), Int2F(1))
    ELSE NaN

DB_FLOOR == Rat(1, 1000000)

\* to_db, at one pixel: np.where(arr <= 0, 1e-6, arr), then 10 * log10.
to_db_px(x) ==
    LET arr_clipped == IF Le(x, Zero) THEN DB_FLOOR ELSE x
    IN  Mul(Int2F(10), log10(arr_clipped))

to_db(arr) == [p \in DOMAIN arr |-> to_db_px(arr[p])]

\* The non-NaN values of a raster in ascending order.
RECURSIVE sorted_values(_, _)
sorted_values(a, S) ==
    IF S = {} THEN << >>
    ELSE LET m == CHOOSE p \in S : \A q \in S : Le(a[p], a[q])
         IN  <<a[m]>> \o sorted_values(a, S \ {m})

\* np.nanmedian
nanmedian(a) ==
    LET v == sorted_values(a, {p \in DOMAIN a : ~isnan(a[p])})
        n == Len(v)
    IN  IF n = 0 THEN NaN
        ELSE IF n % 2 = 1 THEN v[(n + 1) \div 2]
        ELSE Div(Add(v[n \div 2], v[n \div 2 + 1]), Int2F(2))

\* np.nanmax and np.nanmin: NaN (with a RuntimeWarning) on an all-NaN raster.
nanmax(a) ==
    LET S == {p \in DOMAIN a : ~isnan(a[p])}
    IN  IF S = {} THEN NaN
        ELSE a[CHOOSE p \in S : \A q \in S : Ge(a[p], a[q])]

nanmin(a) ==
    LET S == {p \in DOMAIN a : ~isnan(a[p])}
    IN  IF S = {} THEN NaN
        ELSE a[CHOOSE p \in S : \A q \in S : Le(a[p], a[q])]

\* Largest r with r * r <= m, for 0 <= m.
RECURSIVE isqrt_between(_, _, _)
isqrt_between(m, lo, hi) ==
    IF lo = hi THEN lo
    ELSE LET mid == (lo + hi + 1) \div 2
         IN  IF mid * mid <= m THEN isqrt_between(m, mid, hi)
             ELSE isqrt_between(m, lo, mid - 1)

isqrt(m) == isqrt_between(m, 0, IF m < 46340 THEN m ELSE 46340)

\* Square root: exact on squares of fractions, else rounded down to a
\* multiple of 0.01.
sqrt(x) ==
    IF isnan(x) \/ isinf(x) THEN x
    ELSE IF isqrt(x.n) * isqrt(x.n) = x.n /\ isqrt(x.d) * isqrt(x.d) = x.d
         THEN Rat(isqrt(x.n), isqrt(x.d))
    ELSE Rat(isqrt((x.n * 10000) \div x.d), 100)

\* np.nanstd: population standard deviation of the non-NaN values.
nanstd(a) ==
    LET S == {p \in DOMAIN a : ~isnan(a[p])}
        all == [p \in DOMAIN a |-> TRUE]
        mean == nanmean(a, all)
        sq == [p \in DOMAIN a |-> Mul(Sub(a[p], mean), Sub(a[p], mean))]
    IN  IF S = {} THEN NaN
        ELSE sqrt(Div(SumOver(sq, S), Int2F(Cardinality(S))))

\* Python's max(a, b): b when b > a, else a.
py_max(a, b) == IF Gt(b, a) THEN b ELSE a

\* The four statistics of a delta raster reported in the response.
delta_stats(delta) ==
    [mean |-> nanmean(delta, [p \in DOMAIN delta |-> TRUE]),
     std |-> nanstd(delta),
     max |-> nanmax(delta),
     min |-> nanmin(delta)]

ndwi_mask_not_le(delta_ndwi, ndwi_thr) ==
    [p \in DOMAIN delta_ndwi |-> ~Le(delta_ndwi[p], ndwi_thr)]

\* ndwi_mask = (delta_ndwi > ndwi_threshold)
ndwi_mask_of(delta_ndwi, ndwi_thr) ==
    [p \in DOMAIN delta_ndwi |-> Gt(delta_ndwi[p], ndwi_thr)]

\* vv_mask = (delta_vv_db < -abs(vv_db_threshold))
vv_mask_of(delta_vv_db, vv_thr) ==
    [p \in DOMAIN delta_vv_db |-> Lt(delta_vv_db[p], Neg(FAbs(vv_thr)))]

linear_or_db_keep_small(s1_median, arr) ==
    IF Gt(s1_median, Int2F(1)) THEN to_db(arr) ELSE arr

\* if s1_median > 1.0: to_db(...) else: to_db(...)   (the same call in both
\* branches)
linear_or_db(s1_median, arr) ==
    IF Gt(s1_median, Int2F(1)) THEN to_db(arr) ELSE to_db(arr)

\* The computation of detect_irrigation after the four rasters arrived.
irrigation_result(b, ndwi_thr, vv_thr, s1_ref, s1_rec, s2_ref, s2_rec) ==
    LET vv_ref == s1_ref[1]
        vv_rec == s1_rec[1]
        green_ref == s2_ref[1]
        nir_ref == s2_ref[2]
        green_rec == s2_rec[1]
        nir_rec == s2_rec[2]
        ndwi_ref == safe_ndwi(green_ref, nir_ref)
        ndwi_rec == safe_ndwi(green_rec, nir_rec)
        delta_ndwi == [p \in 1..broadcast_width(ndwi_rec, ndwi_ref) |->
                          Sub(at(ndwi_rec, p), at(ndwi_ref, p))]
        s1_median == nanmedian([p \in DOMAIN vv_ref |-> FAbs(vv_ref[p])])
        vv_ref_db == linear_or_db(s1_median, vv_ref)
        vv_rec_db == linear_or_db(s1_median, vv_rec)
        delta_vv_db == [p \in 1..broadcast_width(vv_rec_db, vv_ref_db) |->
                           Sub(at(vv_rec_db, p), at(vv_ref_db, p))]
        ndwi_mask == ndwi_mask_of(delta_ndwi, ndwi_thr)
        vv_mask == vv_mask_of(delta_vv_db, vv_thr)
        fused_mask == and_mask(ndwi_mask, vv_mask)
        hw == Cardinality(DOMAIN fused_mask)
        pixels_count == count_nonzero(fused_mask)
        area == py_max(Rat(1, 1000000000), area_km2(b))
        pixel_area_km2 == Div(area, Int2F(hw))
        pixels_area_km2 == Mul(Int2F(pixels_count), pixel_area_km2)
        ndwi_candidates == count_nonzero(ndwi_mask)
        confidence_fraction ==
            IF ndwi_candidates > 0 THEN Rat(pixels_count, ndwi_candidates)
            ELSE Zero
    IN  IF \/ ~broadcastable(ndwi_rec, ndwi_ref)
           \/ ~broadcastable(vv_rec_db, vv_ref_db)
           \/ ~broadcastable(delta_ndwi, delta_vv_db)
        THEN ValueError
        ELSE
        [kind |-> "irrigation",
         pixels_detected |-> pixels_count,
         area_detected_km2 |-> round(pixels_area_km2, 6),
         pixel_area_km2 |-> pixel_area_km2,
         delta_ndwi_stats |-> delta_stats(delta_ndwi),
         delta_vv_db_stats |-> delta_stats(delta_vv_db),
         ndwi_threshold |-> ndwi_thr,
         vv_db_threshold |-> vv_thr,
         confidence_fraction |-> confidence_fraction,
         resolution |-> [width |-> hw, height |-> 1],
         \* locals of the call, kept to state properties of the masks
         s1_median |-> s1_median,
         ndwi_ref |-> ndwi_ref,
         ndwi_rec |-> ndwi_rec,
         vv_ref_db |-> vv_ref_db,
         vv_rec_db |-> vv_rec_db,
         area_km2 |-> area,
         pixels_area_km2 |-> pixels_area_km2,
         delta_ndwi |-> delta_ndwi,
         delta_vv_db |-> delta_vv_db,
         ndwi_mask |-> ndwi_mask,
         vv_mask |-> vv_mask,
         fused_mask |-> fused_mask]

\* dataMask of the samples behind a raster.
mask_of(scene) == [p \in DOMAIN scene |-> scene[p].dataMask]


\* POST /irrigation/detect, up to the Sentinel-1 rasters of both periods.
detect_irrigation_s1 ==
    /\ pc = "idle"
    /\ \E b \in BBoxes, t \in ThresholdPairs,
          ref \in [Pixels -> S1RefSamples], rec \in [Pixels -> S1RecentSamples] :
          /\ bbox' = b
          /\ thresholds' = t
          /\ rasters' = [NoRasters EXCEPT !.s1_ref = S1_post_process_api(ref),
                                          !.s1_rec = S1_post_process_api(rec)]
          /\ dataMasks' = [NoMasks EXCEPT !.s1_ref = mask_of(ref),
                                          !.s1_rec = mask_of(rec)]
    /\ pc' = "irrigation_s2"
    /\ UNCHANGED <<ref_arr, recent_arr, scene_date, image, acquisitions, result>>
    /\ UNCHANGED glue_vars

detect_irrigation_s2_clip_in_place ==
    /\ pc = "irrigation_s2"
    /\ \E ref \in [Pixels -> S2RefSamples], w \in Widths :
       \E rec \in [1..w -> S2RecentSamples] :
          LET s2_ref == S2_post_process_api(ref)
              s2_rec == S2_post_process_api(rec)
              clipped == [p \in DOMAIN rasters.s1_rec[1] |->
                            IF Le(rasters.s1_rec[1][p], Zero) THEN DB_FLOOR
                            ELSE rasters.s1_rec[1][p]]
          IN  /\ rasters' = [rasters EXCEPT !.s2_ref = s2_ref, !.s2_rec = s2_rec,
                                            !.s1_rec[1] = clipped]
              /\ dataMasks' = [dataMasks EXCEPT !.s2_ref = mask_of(ref),
                                                !.s2_rec = mask_of(rec)]
              /\ result' = irrigation_result(bbox, thresholds[1], thresholds[2],
                                             rasters.s1_ref, rasters.s1_rec,
                                             s2_ref, s2_rec)
    /\ pc' = "responded"
    /\ UNCHANGED <<bbox, thresholds, ref_arr, recent_arr, scene_date, image,
                   acquisitions>>
    /\ UNCHANGED glue_vars

\* ... the Sentinel-2 rasters arrive, the one of the recent period of any
\* width, and the handler runs to its return.
detect_irrigation_s2 ==
    /\ pc = "irrigation_s2"
    /\ \E ref \in [Pixels -> S2RefSamples], w \in Widths :
       \E rec \in [1..w -> S2RecentSamples] :
          LET s2_ref == S2_post_process_api(ref)
              s2_rec == S2_post_process_api(rec)
          IN  /\ rasters' = [rasters EXCEPT !.s2_ref = s2_ref, !.s2_rec = s2_rec]
              /\ dataMasks' = [dataMasks EXCEPT !.s2_ref = mask_of(ref),
                                                !.s2_rec = mask_of(rec)]
              /\ result' = irrigation_result(bbox, thresholds[1], thresholds[2],
                                             rasters.s1_ref, rasters.s1_rec,
                                             s2_ref, s2_rec)
    /\ pc' = "responded"
    /\ UNCHANGED <<bbox, thresholds, ref_arr, recent_arr, scene_date, image,
                   acquisitions>>
    /\ UNCHANGED glue_vars

NextIrrigation ==
    \/ detect_irrigation_s1
    \/ detect_irrigation_s2
    \/ respond

SpecIrrigation == Init /\ [][NextIrrigation]_vars

-----------------------------------------------------------------------------
(* gee_urban_heat.py: get_landsat_urban_heat_gee *)

\* Python's None, where a float is expected.
None == [n |-> -1, d |-> -1]

\* Number of Landsat pixels of the region.
NHeatPix == 3

HeatPixels == 1..NHeatPix

\* A pixel of the LST band over the region: masked, or a temperature in
\* degrees Celsius.
MaskedPx == [masked |-> TRUE, lst |-> Zero]
LstPx(t) == [masked |-> FALSE, lst |-> t]

LstPixels == { MaskedPx, LstPx(Int2F(20)), LstPx(Int2F(30)), LstPx(Int2F(40)) }

\* NDVI_mean of the region as Earth Engine reports it.
NdviMeans == { None, Rat(2, 10), Rat(4, 10), Rat(6, 10) }

\* scene_date of the requests, as day ordinals; days_before is the default.
SceneDates == { 739000, 739001 }
days_before == 30

\* ee reduceRegion with mean, stdDev, minMax and count combined: the
\* statistics of the unmasked pixels, None where there is none.
reduceRegion(img) ==
    LET S == {p \in DOMAIN img : ~img[p].masked}
        v == [p \in DOMAIN img |-> IF img[p].masked THEN NaN ELSE img[p].lst]
    IN  IF S = {}
        THEN [LST_mean |-> None, LST_stdDev |-> None, LST_min |-> None,
              LST_max |-> None, LST_count |-> 0]
        ELSE [LST_mean |-> nanmean(v, [p \in DOMAIN img |-> TRUE]),
              LST_stdDev |-> nanstd(v),
              LST_min |-> nanmin(v),
              LST_max |-> nanmax(v),
              LST_count |-> Cardinality(S)]

\* ee sampleRectangle(region, defaultValue=0): masked pixels become 0.
sampleRectangle(img) ==
    [p \in DOMAIN img |-> IF img[p].masked THEN Zero ELSE img[p].lst]

HTTPException(status_code, detail) ==
    [kind |-> "HTTPException", status_code |-> status_code, detail |-> detail]

\* valid_mask = ~np.isnan(lst_array) & (lst_array != 0)
heat_valid_mask(lst_array) ==
    [p \in DOMAIN lst_array |-> ~isnan(lst_array[p]) /\ lst_array[p] # Zero]

heat_pixels_mask_ge(lst_array, valid_mask, heat_threshold) ==
    [p \in DOMAIN lst_array |-> valid_mask[p] /\ Ge(lst_array[p], heat_threshold)]

\* lst_array[valid_mask] > heat_threshold, as a mask over the raster
heat_pixels_mask(lst_array, valid_mask, heat_threshold) ==
    [p \in DOMAIN lst_array |-> valid_mask[p] /\ Gt(lst_array[p], heat_threshold)]

\* estimated_total_pixels = max(1, int(bbox_area_m2 / pixel_area))
estimated_total_pixels_of(b) ==
    LET bbox_width == FAbs(Sub(b.max_lon, b.min_lon))
        bbox_height == FAbs(Sub(b.max_lat, b.min_lat))
        bbox_area == Mul(bbox_width, bbox_height)
        bbox_area_m2 == Mul(Mul(bbox_area, Int2F(111000)), Int2F(111000))
        q == Div(bbox_area_m2, Int2F(30 * 30))
        int_q == q.n \div q.d
    IN  IF int_q > 1 THEN int_q ELSE 1

\* The body of get_landsat_urban_heat_gee once an image was found: the
\* value it returns, or the HTTPException its except clause raises.
urban_heat_result(b, img, mean_ndvi) ==
    LET stats == reduceRegion(img)
        mean_temp == stats.LST_mean
        std_temp == stats.LST_stdDev
        min_temp == stats.LST_min
        max_temp == stats.LST_max
        valid_pixels == stats.LST_count
        heat_threshold == Add(mean_temp, std_temp)
        lst_array == sampleRectangle(img)
        valid_mask == heat_valid_mask(lst_array)
        heat_mask == heat_pixels_mask(lst_array, valid_mask, heat_threshold)
        heat_pixels == count_nonzero(heat_mask)
        total_valid == count_nonzero(valid_mask)
        heat_fraction == IF total_valid > 0 THEN Rat(heat_pixels, total_valid) ELSE Zero
        estimated_total_pixels == estimated_total_pixels_of(b)
        coverage == round(Mul(Rat(valid_pixels, estimated_total_pixels), Int2F(100)), 1)
        coverage_percentage == IF Lt(Int2F(100), coverage) THEN Int2F(100) ELSE coverage
    IN  IF mean_temp = None \/ isnan(mean_temp)
        THEN HTTPException(500, [failed |-> "Unable to compute valid temperature statistics"])
        ELSE IF mean_ndvi = None
        THEN HTTPException(500, [failed |-> "TypeError"])
        ELSE [kind |-> "urban_heat",
              temperature_analysis |->
                 [mean_temperature_c |-> round(mean_temp, 2),
                  temperature_std_c |-> round(std_temp, 2),
                  min_temperature_c |-> round(min_temp, 2),
                  max_temperature_c |-> round(max_temp, 2),
                  urban_heat_fraction |-> round(heat_fraction, 3),
                  heat_threshold_c |-> round(heat_threshold, 2)],
              vegetation_analysis |->
                 [mean_ndvi |-> round(mean_ndvi, 3),
                  vegetation_health |->
                     IF Gt(mean_ndvi, Rat(5, 10)) THEN "high"
                     ELSE IF Gt(mean_ndvi, Rat(3, 10)) THEN "medium"
                     ELSE "low"],
              data_quality |->
                 [valid_pixels |-> valid_pixels,
                  total_pixels |-> estimated_total_pixels,
                  coverage_percentage |-> coverage_percentage],
              \* locals of the call, kept to state properties of the masks
              heat_threshold |-> heat_threshold,
              heat_mask |-> heat_mask,
              heat_pixels |-> heat_pixels,
              total_valid |-> total_valid,
              heat_fraction |-> heat_fraction]

get_landsat_urban_heat_gee_no_image_retry ==
    /\ pc = "idle"
    /\ \E b \in BBoxes, sd \in SceneDates :
          /\ bbox' = b
          /\ scene_date' = sd
          /\ result' = HTTPException(500,
                 [failed |-> "No cloud-free Landsat images found",
                  start_date |-> sd - days_before, end_date |-> sd])
    /\ image' = NoScene
    /\ acquisitions' = 2
    /\ pc' = "responded"
    /\ UNCHANGED <<ref_arr, recent_arr, thresholds, rasters, dataMasks>>
    /\ UNCHANGED glue_vars

\* get_landsat_urban_heat_gee: no image matches the filters (count == 0).
get_landsat_urban_heat_gee_no_image ==
    /\ pc = "idle"
    /\ \E b \in BBoxes, sd \in SceneDates :
          /\ bbox' = b
          /\ scene_date' = sd
          /\ result' = HTTPException(500,
                 [failed |-> "No cloud-free Landsat images found",
                  start_date |-> sd - days_before, end_date |-> sd])
    /\ image' = NoScene
    /\ acquisitions' = 1
    /\ pc' = "responded"
    /\ UNCHANGED <<ref_arr, recent_arr, thresholds, rasters, dataMasks>>
    /\ UNCHANGED glue_vars

\* get_landsat_urban_heat_gee: the most recent image is reduced and sampled.
get_landsat_urban_heat_gee ==
    /\ pc = "idle"
    /\ \E b \in BBoxes, sd \in SceneDates, img \in [HeatPixels -> LstPixels],
          mean_ndvi \in NdviMeans :
          /\ bbox' = b
          /\ scene_date' = sd
          /\ image' = [count |-> 1, LST |-> img, NDVI_mean |-> mean_ndvi]
          /\ result' = urban_heat_result(b, img, mean_ndvi)
    /\ acquisitions' = 1
    /\ pc' = "responded"
    /\ UNCHANGED <<ref_arr, recent_arr, thresholds, rasters, dataMasks>>
    /\ UNCHANGED glue_vars

NextUrbanHeat ==
    \/ get_landsat_urban_heat_gee_no_image
    \/ get_landsat_urban_heat_gee
    \/ respond

SpecUrbanHeat == Init /\ [][NextUrbanHeat]_vars

Next ==
    \/ deforestation_monitor_ref
    \/ deforestation_monitor_recent
    \/ detect_irrigation_s1
    \/ detect_irrigation_s2
    \/ get_landsat_urban_heat_gee_no_image
    \/ get_landsat_urban_heat_gee
    \/ respond

Spec == Init /\ [][Next]_vars

NextDeforestation ==
    \/ deforestation_monitor_ref
    \/ deforestation_monitor_recent
    \/ respond

SpecDeforestation == Init /\ [][NextDeforestation]_vars

-----------------------------------------------------------------------------
(* Properties of deforestation_monitor *)

\* A call of deforestation_monitor has returned.
DeforestationReturned == pc = "responded" /\ ref_arr # NoArr

\* A call of deforestation_monitor on two rasters of the shape it asked for
\* has returned its result.
DeforestationDone ==
    /\ pc = "responded"
    /\ result.kind = "deforestation"
    /\ width_of(recent_arr[1]) = NPix

\* Loss of an index at pixel p: reference value minus recent value.
LossAt(band, p) == Sub(ref_arr[band][p], recent_arr[band][p])

\* Both losses of pixel p exceed their thresholds, strictly.
ExceedsBoth(p) ==
    Gt(LossAt(1, p), Rat(3, 10)) /\ Gt(LossAt(2, p), Rat(2, 10))

\* C1: a pixel is counted in deforested_pixels iff it is in the combined
\* validity mask and its NDVI loss is > 0.3 and its NBR loss is > 0.2; so
\* when all pixels are valid and exceed both thresholds deforested_pixels
\* equals valid_pixels, and when no pixel has an NBR loss above 0.2
\* deforested_pixels is 0 whatever the NDVI loss.
C1_DeforestedIffBothExceed ==
    DeforestationDone =>
        /\ \A p \in Pixels :
              result.deforestation_mask[p]
                  <=> (result.valid_mask[p] /\ ExceedsBoth(p))
        /\ result.deforested_pixels
              = Cardinality({p \in Pixels : result.valid_mask[p] /\ ExceedsBoth(p)})
        /\ (\A p \in Pixels : result.valid_mask[p] /\ ExceedsBoth(p))
              => result.deforested_pixels = result.valid_pixels
        /\ (\A p \in Pixels : ~Gt(LossAt(2, p), Rat(2, 10)))
              => result.deforested_pixels = 0

\* One pixel is counted, another is valid with an NDVI loss above 0.3 but
\* an NBR loss not above 0.2 and is not counted.
C1_Witness ==
    /\ DeforestationDone
    /\ result.deforested_pixels = 1
    /\ \E p \in Pixels :
          /\ result.valid_mask[p]
          /\ Gt(LossAt(1, p), Rat(3, 10))
          /\ ~Gt(LossAt(2, p), Rat(2, 10))
          /\ ~result.deforestation_mask[p]

\* Pixel p of a raster is flagged by the evalscript (cloud or no data), has
\* a NaN index, or an NDVI outside [-1, 1].
InvalidIn(arr, p) ==
    \/ arr[3][p] = 0
    \/ isnan(arr[1][p])
    \/ Gt(arr[1][p], Int2F(1))
    \/ Lt(arr[1][p], Int2F(-1))

\* The pixels valid in both periods, each by its own period's arrays.
BothValid ==
    {p \in Pixels : ref_valid_of(ref_arr[1], ref_arr[3])[p]
                    /\ rec_valid_of(recent_arr[1], recent_arr[3])[p]}

\* C2: the combined validity mask is the pixelwise AND of the two periods'
\* masks, each computed from its own period's arrays; a pixel invalid in
\* either period is in no mask, has no delta, and does not contribute to
\* valid_pixels, deforested_pixels or dnbr_mean.
C2_CombinedMaskIsAnd ==
    DeforestationDone =>
        /\ \A p \in Pixels : result.valid_mask[p] <=> p \in BothValid
        /\ \A p \in Pixels :
              (InvalidIn(ref_arr, p) \/ InvalidIn(recent_arr, p))
                  => /\ ~result.valid_mask[p]
                     /\ ~result.deforestation_mask[p]
                     /\ isnan(result.dndvi[p])
                     /\ isnan(result.dnbr[p])
        /\ result.valid_pixels = Cardinality(BothValid)
        /\ result.deforested_pixels <= Cardinality(BothValid)
        /\ result.dnbr_mean
              = IF BothValid = {} THEN Zero
                ELSE Div(SumOver([p \in Pixels |-> LossAt(2, p)], BothValid),
                         Int2F(Cardinality(BothValid)))

\* Every pixel is valid in the reference period, one of them is flagged in
\* the recent period, and exactly one pixel is valid in both.
C2_Witness ==
    /\ DeforestationDone
    /\ result.valid_pixels = 1
    /\ result.data_quality.ref_valid_pixels = NPix
    /\ \E p \in Pixels : recent_arr[3][p] = 0
    /\ result.dnbr_mean # Zero

\* C4 (as claimed): a reference pixel with non-zero mask is valid iff its
\* NDVI is > 0.2 and within [-1, 1]; a recent pixel with non-zero mask is
\* valid for every NDVI of [-1, 1], boundaries included.
C4_ClosedRangeIsValid ==
    DeforestationDone =>
        /\ result.data_quality.ref_valid_pixels
              = Cardinality({p \in Pixels :
                    /\ ref_arr[3][p] > 0
                    /\ Gt(ref_arr[1][p], Rat(2, 10))
                    /\ Le(ref_arr[1][p], Int2F(1))})
        /\ result.data_quality.recent_valid_pixels
              = Cardinality({p \in Pixels :
                    /\ recent_arr[3][p] > 0
                    /\ Ge(recent_arr[1][p], Int2F(-1))
                    /\ Le(recent_arr[1][p], Int2F(1))})

\* Every pixel of both rasters is flagged by the evalscript.
AllFlagged ==
    \A p \in Pixels :
        /\ ref_arr[3][p] = 0 /\ isnan(ref_arr[1][p]) /\ isnan(ref_arr[2][p])
        /\ recent_arr[3][p] = 0 /\ isnan(recent_arr[1][p])
        /\ isnan(recent_arr[2][p])

\* C5: when every pixel is invalid the call returns, with all counters,
\* areas and means equal to zero.
C5_AllInvalidGivesZeros ==
    (DeforestationDone /\ AllFlagged) =>
        /\ result.valid_pixels = 0
        /\ result.deforested_pixels = 0
        /\ result.deforested_area_km2 = Zero
        /\ result.valid_area_km2 = Zero
        /\ result.ndvi_mean_ref = Zero
        /\ result.ndvi_mean_recent = Zero
        /\ result.dnbr_mean = Zero
        /\ result.data_quality.cloud_free_overlap = 0

C5_Witness ==
    /\ DeforestationDone
    /\ AllFlagged
    /\ result.valid_pixels = 0

-----------------------------------------------------------------------------
(* Properties of detect_irrigation and get_landsat_urban_heat_gee *)

\* A call of detect_irrigation on four rasters of the shape it asked for
\* has returned its result.
IrrigationDone ==
    /\ pc = "responded"
    /\ result.kind = "irrigation"
    /\ width_of(rasters.s2_rec[1]) = NPix

\* A call of detect_irrigation has returned.
IrrigationReturned == pc = "responded" /\ rasters # NoRasters

\* NDWI of pixel p of a Sentinel-2 raster, and VV in dB of pixel p of a
\* Sentinel-1 raster.
NdwiAt(arr, p) == safe_ndwi_px(arr[1][p], arr[2][p])
VvDbAt(arr, p) == to_db_px(arr[1][p])

\* Mean over the pixels of S of f, 0.0 on the empty set.
MeanOn(f, S) ==
    IF S = {} THEN Zero ELSE Div(SumOver(f, S), Int2F(Cardinality(S)))

\* C3 (as claimed): every delta the two handlers threshold or report is
\* the recent-period value minus the reference-period value.
C3_AllDeltasRecentMinusReference ==
    /\ DeforestationDone =>
          /\ \A p \in BothValid :
                /\ result.dndvi[p] = Sub(recent_arr[1][p], ref_arr[1][p])
                /\ result.dnbr[p] = Sub(recent_arr[2][p], ref_arr[2][p])
          /\ result.dnbr_mean
                = MeanOn([p \in Pixels |-> Sub(recent_arr[2][p], ref_arr[2][p])],
                         BothValid)
    /\ IrrigationDone =>
          \A p \in Pixels :
             /\ result.delta_ndwi[p]
                   = Sub(NdwiAt(rasters.s2_rec, p), NdwiAt(rasters.s2_ref, p))
             /\ result.delta_vv_db[p]
                   = Sub(VvDbAt(rasters.s1_rec, p), VvDbAt(rasters.s1_ref, p))

\* C3 (amended): dNDVI, dNBR and dnbr_mean of deforestation_monitor are the
\* reference-period value minus the recent-period value (a loss is
\* positive); delta_ndwi and delta_vv_db of detect_irrigation are the
\* recent-period value minus the reference-period value.
C3_DeltaDirections ==
    /\ DeforestationDone =>
          /\ \A p \in BothValid :
                /\ result.dndvi[p] = Sub(ref_arr[1][p], recent_arr[1][p])
                /\ result.dnbr[p] = Sub(ref_arr[2][p], recent_arr[2][p])
          /\ result.dnbr_mean
                = MeanOn([p \in Pixels |-> Sub(ref_arr[2][p], recent_arr[2][p])],
                         BothValid)
    /\ IrrigationDone =>
          \A p \in Pixels :
             /\ result.delta_ndwi[p]
                   = Sub(NdwiAt(rasters.s2_rec, p), NdwiAt(rasters.s2_ref, p))
             /\ result.delta_vv_db[p]
                   = Sub(VvDbAt(rasters.s1_rec, p), VvDbAt(rasters.s1_ref, p))

\* A valid pixel went from NDVI 0.6 to 0.1 and from NBR 0 to -0.5: both
\* deltas are +0.5.
C3_Witness ==
    /\ DeforestationDone
    /\ \E p \in BothValid :
          /\ ref_arr[1][p] = Rat(6, 10) /\ recent_arr[1][p] = Rat(1, 10)
          /\ result.dndvi[p] = Rat(5, 10)
          /\ result.dnbr[p] = Rat(5, 10)

\* The eight statistics of a detect_irrigation response.
IrrigationStats ==
    { result.delta_ndwi_stats.mean, result.delta_ndwi_stats.std,
      result.delta_ndwi_stats.max, result.delta_ndwi_stats.min,
      result.delta_vv_db_stats.mean, result.delta_vv_db_stats.std,
      result.delta_vv_db_stats.max, result.delta_vv_db_stats.min }

\* C6 (as claimed): no statistic of detect_irrigation is NaN; when no pixel
\* has a defined NDWI delta the four NDWI statistics are 0.0.
C6_NoStatisticIsNaN ==
    IrrigationDone =>
        /\ \A x \in IrrigationStats : ~isnan(x)
        /\ (\A p \in Pixels : isnan(result.delta_ndwi[p]))
              => /\ result.delta_ndwi_stats.mean = Zero
                 /\ result.delta_ndwi_stats.std = Zero
                 /\ result.delta_ndwi_stats.max = Zero
                 /\ result.delta_ndwi_stats.min = Zero

\* An image was found and every pixel of its LST band is masked.
HeatAllMasked ==
    /\ pc = "responded"
    /\ image.count = 1
    /\ \A p \in HeatPixels : image.LST[p].masked

\* C7 (as claimed): with an image but no valid pixel the call returns a
\* result whose temperature statistics and heat fraction are 0.0 and whose
\* valid_pixels is 0.
C7_NoValidPixelsReturnsZeros ==
    HeatAllMasked =>
        /\ result.kind = "urban_heat"
        /\ result.temperature_analysis.mean_temperature_c = Zero
        /\ result.temperature_analysis.temperature_std_c = Zero
        /\ result.temperature_analysis.min_temperature_c = Zero
        /\ result.temperature_analysis.max_temperature_c = Zero
        /\ result.temperature_analysis.urban_heat_fraction = Zero
        /\ result.data_quality.valid_pixels = 0

\* x lies in [0, 1].
InUnit(x) == Ge(x, Zero) /\ Le(x, Int2F(1))

\* C8 (as claimed): confidence_fraction is 0.0 when no pixel passes the
\* NDWI predicate, urban_heat_fraction is reported as 0.0 when no sampled
\* pixel is valid, and otherwise either fraction lies in [0, 1].
C8_FractionsGuardZeroDenominator ==
    /\ IrrigationDone =>
          /\ (\A p \in Pixels : ~result.ndwi_mask[p])
                => result.confidence_fraction = Zero
          /\ InUnit(result.confidence_fraction)
    /\ (pc = "responded" /\ image.count = 1) =>
          /\ (\A p \in HeatPixels : ~heat_valid_mask(sampleRectangle(image.LST))[p])
                => /\ result.kind = "urban_heat"
                   /\ result.temperature_analysis.urban_heat_fraction = Zero
          /\ result.kind = "urban_heat"
                => InUnit(result.temperature_analysis.urban_heat_fraction)

\* C9 (as claimed): a pixel is in the fused mask iff delta_ndwi >
\* ndwi_threshold and delta_vv_db < -vv_db_threshold, for every pair of
\* thresholds; pixels_detected counts exactly those pixels.
C9_FusedIffBothPredicates ==
    IrrigationDone =>
        /\ \A p \in Pixels :
              result.fused_mask[p]
                 <=> /\ Gt(result.delta_ndwi[p], thresholds[1])
                     /\ Lt(result.delta_vv_db[p], Neg(thresholds[2]))
        /\ result.pixels_detected
              = Cardinality({p \in Pixels :
                    /\ Gt(result.delta_ndwi[p], thresholds[1])
                    /\ Lt(result.delta_vv_db[p], Neg(thresholds[2]))})

\* Pixel p has dataMask 0 in one of the four inputs.
NoDataAt(p) ==
    \/ dataMasks.s1_ref[p] = 0
    \/ dataMasks.s1_rec[p] = 0
    \/ dataMasks.s2_ref[p] = 0
    \/ dataMasks.s2_rec[p] = 0

\* C10 (as claimed): a pixel whose dataMask is 0 in any of the four inputs
\* is never in the detection mask.
C10_NoDataNeverDetected ==
    IrrigationDone => \A p \in Pixels : NoDataAt(p) => ~result.fused_mask[p]

\* C11 (as claimed): safe_ndwi returns NaN at exactly the pixels where
\* green + nir == 0 and a finite value at every other pixel.
C11_NdwiNaNIffZeroSum ==
    IrrigationDone =>
        \A p \in Pixels :
           LET sum_ref == Add(rasters.s2_ref[1][p], rasters.s2_ref[2][p])
               sum_rec == Add(rasters.s2_rec[1][p], rasters.s2_rec[2][p])
           IN  /\ isnan(result.ndwi_ref[p]) <=> sum_ref = Zero
               /\ sum_ref # Zero => isfinite(result.ndwi_ref[p])
               /\ isnan(result.ndwi_rec[p]) <=> sum_rec = Zero
               /\ sum_rec # Zero => isfinite(result.ndwi_rec[p])

\* 10 * log10(max(x, 1e-6))
FlooredDb(x) == Mul(Int2F(10), log10(py_max(x, DB_FLOOR)))

\* C12 (as claimed): to_db(x) equals 10 * log10(max(x, 1e-6)) for every x,
\* so no dB value is below -60.
C12_DbIsFlooredAtMinus60 ==
    IrrigationDone =>
        \A p \in Pixels :
           /\ result.vv_ref_db[p] = FlooredDb(rasters.s1_ref[1][p])
           /\ result.vv_rec_db[p] = FlooredDb(rasters.s1_rec[1][p])
           /\ Ge(result.vv_ref_db[p], Int2F(-60))
           /\ Ge(result.vv_rec_db[p], Int2F(-60))

\* A call of detect_irrigation on four rasters of the shape it asked for
\* has ended.
IrrigationSameShape ==
    IrrigationReturned /\ width_of(rasters.s2_rec[1]) = NPix

\* One of the two thresholds of the request is NaN.
NaNThreshold == isnan(thresholds[1]) \/ isnan(thresholds[2])

\* C13: when ndwi_threshold or vv_db_threshold is NaN, detect_irrigation on
\* rasters of one shape raises no error and its fused mask is all-false:
\* pixels_detected is 0 and area_detected_km2 is 0.
C13_NaNThresholdDetectsNothing ==
    (IrrigationSameShape /\ NaNThreshold) =>
        /\ result.kind = "irrigation"
        /\ \A p \in Pixels : ~result.fused_mask[p]
        /\ result.pixels_detected = 0
        /\ result.area_detected_km2 = Zero

\* The NDWI threshold is NaN and a pixel passes the backscatter predicate,
\* or the backscatter threshold is NaN and a pixel passes the NDWI one.
C13_Witness ==
    /\ IrrigationSameShape
    /\ \/ isnan(thresholds[1]) /\ \E p \in Pixels : result.vv_mask[p]
       \/ isnan(thresholds[2]) /\ \E p \in Pixels : result.ndwi_mask[p]

\* C14 (as claimed): the thresholds a result reports are the ones its
\* detection predicates applied: ndwi_mask is delta_ndwi > the reported
\* ndwi_threshold, vv_mask is delta_vv_db < -(the reported vv_db_threshold),
\* and the deforestation mask uses the reported dNDVI and dNBR.
C14_ReportedThresholdsAreApplied ==
    /\ IrrigationDone =>
          \A p \in Pixels :
             /\ result.ndwi_mask[p]
                   <=> Gt(result.delta_ndwi[p], result.ndwi_threshold)
             /\ result.vv_mask[p]
                   <=> Lt(result.delta_vv_db[p], Neg(result.vv_db_threshold))
    /\ DeforestationDone =>
          \A p \in Pixels :
             result.deforestation_mask[p]
                <=> /\ result.valid_mask[p]
                    /\ Gt(result.dndvi[p], result.thresholds.dNDVI)
                    /\ Gt(result.dnbr[p], result.thresholds.dNBR)

\* The area relations between a bounding box area A, a pixel area, a count
\* of detected pixels out of hw and the detected area.
AreaConversion(A, hw, pixel_area, count, detected_area) ==
    /\ pixel_area = Div(A, Int2F(hw))
    /\ detected_area = Mul(Int2F(count), pixel_area)
    /\ count = 0 => detected_area = Zero
    /\ Le(detected_area, A)
    /\ count = hw => detected_area = A

\* C15 (as claimed): in both handlers pixel_area_km2 is width_km * height_km
\* over h * w and the detected area is the detected count times
\* pixel_area_km2, so it is 0 without detection, never above the box area,
\* and equal to it when every pixel is detected.
C15_AreaConversion ==
    /\ DeforestationDone =>
          AreaConversion(bbox_area_km2(bbox), NPix, result.pixel_area_km2,
                         result.deforested_pixels, result.deforested_area)
    /\ IrrigationDone =>
          AreaConversion(bbox_area_km2(bbox), NPix, result.pixel_area_km2,
                         result.pixels_detected, result.pixels_area_km2)

\* C16 (as claimed): no analysis runs with a bounding box whose min_lon >=
\* max_lon or whose min_lat >= max_lat.
C16_NoDegenerateBoundingBox ==
    pc # "idle" =>
        /\ Lt(bbox.min_lon, bbox.max_lon)
        /\ Lt(bbox.min_lat, bbox.max_lat)

\* A call of get_landsat_urban_heat_gee has returned its result.
HeatDone == pc = "responded" /\ result.kind = "urban_heat"

\* The valid sampled pixels of the image, and the zonal mean + std of the
\* region.
ValidSampled == {p \in HeatPixels : ~image.LST[p].masked /\ image.LST[p].lst # Zero}
ZonalThreshold ==
    Add(reduceRegion(image.LST).LST_mean, reduceRegion(image.LST).LST_stdDev)
Hotspots == {p \in ValidSampled : Gt(image.LST[p].lst, ZonalThreshold)}

\* C17: the hotspot count is the number of valid sampled pixels whose
\* temperature is strictly greater than the zonal mean + std of the region,
\* the heat fraction is that count over the number of valid sampled pixels
\* (reported rounded to 3 decimals), and a pixel equal to the threshold is
\* not a hotspot.
C17_HotspotsAreStrictlyAboveMeanPlusStd ==
    HeatDone =>
        /\ result.heat_pixels = Cardinality(Hotspots)
        /\ result.total_valid = Cardinality(ValidSampled)
        /\ result.heat_fraction
              = Rat(Cardinality(Hotspots), Cardinality(ValidSampled))
        /\ result.temperature_analysis.urban_heat_fraction
              = round(Rat(Cardinality(Hotspots), Cardinality(ValidSampled)), 3)
        /\ \A p \in ValidSampled :
              image.LST[p].lst = ZonalThreshold => ~result.heat_mask[p]

\* One pixel of three valid ones is a hotspot.
C17_Witness ==
    /\ HeatDone
    /\ result.heat_pixels = 1
    /\ result.total_valid = NHeatPix

\* get_landsat_urban_heat_gee has ended on a collection of size 0.
NoSceneFound ==
    pc = "responded" /\ scene_date \in SceneDates /\ image.count = 0

\* C18: when the filtered collection has size 0 the call ends with a
\* failure that carries the start and end dates it asked for, computes no
\* statistics, and has asked for scenes once.
C18_NoSceneIsTerminalFailure ==
    NoSceneFound =>
        /\ result.kind = "HTTPException"
        /\ result.status_code = 500
        /\ result.detail.start_date = scene_date - days_before
        /\ result.detail.end_date = scene_date
        /\ "temperature_analysis" \notin DOMAIN result
        /\ image = NoScene
        /\ acquisitions = 1

C18_Witness ==
    /\ NoSceneFound
    /\ result.kind = "HTTPException"
    /\ result.detail.end_date = 739001

\* The rasters of a call that has ended do not all have one width.
ShapeMismatch ==
    \/ DeforestationReturned /\ width_of(recent_arr[1]) # width_of(ref_arr[1])
    \/ IrrigationReturned
          /\ width_of(rasters.s2_rec[1]) # width_of(rasters.s2_ref[1])

\* C19 (as claimed): a call whose rasters do not share one height x width
\* fails with an error; it never returns a result.
C19_MismatchedShapesFail == ShapeMismatch => result.kind = "ValueError"

\* The Sentinel-2 rasters the Process API can return.
S2RefRasters == {S2_post_process_api(scene) : scene \in [Pixels -> S2RefSamples]}
S2RecentRasters ==
    UNION { {S2_post_process_api(scene) : scene \in [1..w -> S2RecentSamples]} :
            w \in Widths }

DbOfInputs ==
    LET ref_db == to_db(rasters.s1_ref[1])
        rec_db == to_db(rasters.s1_rec[1])
        delta == [p \in Pixels |-> Sub(rec_db[p], ref_db[p])]
    IN  /\ result.vv_ref_db = ref_db
        /\ result.vv_rec_db = rec_db
        /\ result.delta_vv_db = delta
        /\ result.vv_mask = vv_mask_of(delta, thresholds[2])

\* C21: the linear-or-dB heuristic of detect_irrigation has no effect:
\* whether the median of |vv_ref| is above 1.0 or not, vv_ref_db and
\* vv_rec_db are to_db of the two rasters, and delta_vv_db and the
\* backscatter mask follow from them.
C21_HeuristicHasNoEffect == IrrigationDone => DbOfInputs

\* A call whose median of |vv_ref| is not above 1.0 (the else branch) and
\* whose reference raster was changed by the conversion.
C21_Witness ==
    /\ IrrigationDone
    /\ ~Gt(result.s1_median, Int2F(1))
    /\ result.vv_ref_db # rasters.s1_ref[1]

\* A call whose median of |vv_ref| is above 1.0 (the if branch).
C21_WitnessLinear ==
    /\ IrrigationDone
    /\ Gt(result.s1_median, Int2F(1))

\* The counters and areas of a deforestation result are ordered.
CountersOrdered ==
    LET q == result.data_quality
        least == IF q.ref_valid_pixels < q.recent_valid_pixels
                 THEN q.ref_valid_pixels ELSE q.recent_valid_pixels
    IN  /\ 0 <= result.deforested_pixels
        /\ result.deforested_pixels <= result.valid_pixels
        /\ result.valid_pixels = q.cloud_free_overlap
        /\ q.cloud_free_overlap <= least
        /\ least <= Cardinality(DOMAIN result.deforestation_mask)
        /\ Le(result.deforested_area_km2, result.valid_area_km2)

\* C30 (as claimed): in every result of deforestation_monitor
\* 0 <= deforested_pixels <= valid_pixels = cloud_free_overlap
\* <= min(ref_valid_pixels, recent_valid_pixels) <= h * w, and
\* deforested_area_km2 <= valid_area_km2.
C30_CountersOrdered ==
    (DeforestationReturned /\ result.kind = "deforestation") => CountersOrdered

\* The same ordering on the calls whose two rasters have one shape.
C30_CountersOrderedSameShape == DeforestationDone => CountersOrdered

-----------------------------------------------------------------------------
(* Specifications and properties of get_sentinel_token *)

\* Calls of get_sentinel_token that may overlap: control passes from one
\* call to another at each awaited token request.
NextSentinelToken ==
    \/ \E c \in Callers : get_sentinel_token(c) /\ UNCHANGED handler_vars
    \/ \E c \in Callers : get_sentinel_token_resume(c) /\ UNCHANGED handler_vars

InitSentinelToken ==
    /\ InitHandlers
    /\ \E creds \in [CredIdx -> BOOLEAN] : InitSentinel(creds)
    /\ InitGemini(AllKeys)
    /\ InitChat
    /\ InitHistory

SpecSentinelToken == InitSentinelToken /\ [][NextSentinelToken]_vars

\* Calls of get_sentinel_token that do not overlap: a call begins only when
\* no other is under way.
NextSentinelTokenSequential ==
    \/ \E c \in Callers :
          NoCallInFlight /\ get_sentinel_token(c) /\ UNCHANGED handler_vars
    \/ \E c \in Callers : get_sentinel_token_resume(c) /\ UNCHANGED handler_vars

SpecSentinelTokenSequential ==
    InitSentinelToken /\ [][NextSentinelTokenSequential]_vars

\* The configured credential sets in cyclic order from start_idx.
CyclicConfigured(start_idx) ==
    LET configured(idx) == SENTINEL_CREDS[idx]
    IN  SelectSeq([j \in 1..NCreds |-> (start_idx + j - 1) % NCreds], configured)

IsPrefix(s, t) ==
    /\ Len(s) <= Len(t)
    /\ \A k \in 1..Len(s) : s[k] = t[k]

\* The credential sets of the failed attempts of a call, in order.
Failed(call) == [k \in 1..Len(call.attempts) |-> call.attempts[k][1]]

\* C22: a call of get_sentinel_token requests a token at most once per
\* credential set, from the configured sets only and in cyclic order from
\* _current_sentinel_idx as it was at entry; it makes at most
\* len(SENTINEL_CREDS) requests; the token it returns is that of the last
\* set it asked, every set asked before it having failed with a quota
\* error or an exception that is no HTTP status error; and it raises
\* RuntimeError only after the last configured set.
C22_CyclicOneRequestPerSet ==
    \A c \in Callers :
       LET call == token_calls[c]
           n == Len(call.requests)
       IN  /\ IsPrefix(call.requests, CyclicConfigured(call.start_idx))
           /\ n <= NCreds
           /\ \A k \in 1..Len(call.attempts) :
                 call.attempts[k][2] \in {"quota exceeded", "Exception", "KeyError"}
           /\ call.pc = "awaiting" =>
                 call.requests = Append(Failed(call), call.idx)
           /\ call.pc = "returned" =>
                 /\ call.value = Token(call.requests[n])
                 /\ call.requests = Append(Failed(call), call.value.idx)
           /\ call.value = Raised("RuntimeError") =>
                 /\ call.requests = CyclicConfigured(call.start_idx)
                 /\ Failed(call) = call.requests

\* A call that began at set 2, passed over the unconfigured set 0 and, after
\* a failure of set 2, returned the token of set 1.
C22_Witness ==
    \E c \in Callers :
       /\ token_calls[c].pc = "returned"
       /\ token_calls[c].start_idx = 2
       /\ ~SENTINEL_CREDS[0]
       /\ token_calls[c].requests = <<2, 1>>

\* C23: the step in which a call returns the token of credential set idx
\* leaves _current_sentinel_idx = idx, and a call that begins when the call
\* that ended last returned the token of set idx, no other call having
\* overlapped, asks set idx first.
C23_WorkingSetIsTriedFirst ==
    [][\A c \in Callers :
          /\ (token_calls[c].pc = "awaiting" /\ token_calls'[c].pc = "returned")
                => current_sentinel_idx' = token_calls'[c].value.idx
          /\ (/\ token_calls[c].pc # "awaiting"
              /\ token_calls'[c] # token_calls[c]
              /\ token_log.value.kind = "access_token")
                => /\ token_calls'[c].start_idx = token_log.value.idx
                   /\ token_calls'[c].requests = <<token_log.value.idx>>]_vars

\* After set 0 failed with a quota error and set 1 gave a token, a later
\* call began at set 1 and got its token there, set 0 not being asked.
C23_Witness ==
    \E c \in Callers :
       /\ SENTINEL_CREDS[0]
       /\ token_calls[c].pc = "returned"
       /\ token_calls[c].start_idx = 1
       /\ token_calls[c].requests = <<1>>
       /\ token_log = [caller |-> c, value |-> Token(1), access_token |-> Token(1)]

\* C24: a status error that is no quota error (its status is neither 429
\* nor 403, or its body has no quota word) ends the call at once: the
\* call has raised HTTPStatusError, the set that answered is the last one it
\* asked, and the error is not among the attempts it went on from.
C24_OtherStatusErrorIsRaisedAtOnce ==
    \A c \in Callers :
       LET call == token_calls[c]
       IN  (/\ call.response.kind = "HTTPStatusError"
            /\ \/ call.response.status_code \notin {429, 403}
               \/ ~call.response.quota_term)
              => /\ call.pc = "raised"
                 /\ call.value = Raised("HTTPStatusError")
                 /\ call.requests = Append(Failed(call), call.idx)

\* A call raised HTTPStatusError on a 403 without a quota word in its body
\* while a configured set was left unasked.
C24_Witness ==
    \E c \in Callers :
       /\ token_calls[c].value = Raised("HTTPStatusError")
       /\ token_calls[c].response.status_code = 403
       /\ Len(token_calls[c].requests) < Len(CyclicConfigured(token_calls[c].start_idx))

\* C25 (as claimed): a call that ended in an exception, no other call
\* having run since it began, leaves _current_sentinel_idx as it was at its
\* entry; and a call that ended raised RuntimeError exactly when every
\* configured set (there may be none) failed with a quota error or an
\* exception that is no HTTP status error.
C25_FailedCallLeavesIndexUnchanged ==
    \A c \in Callers :
       LET call == token_calls[c]
       IN  /\ (call.pc = "raised" /\ token_log.caller = c /\ NoCallInFlight)
                 => current_sentinel_idx = call.start_idx
           /\ call.pc \in {"returned", "raised"} =>
                 (call.value = Raised("RuntimeError")
                    <=> Failed(call) = CyclicConfigured(call.start_idx))

\* The second half of C25 alone: RuntimeError exactly when every configured
\* set failed with a quota error or an exception that is no status error.
C25_RuntimeErrorIffAllFailed ==
    \A c \in Callers :
       LET call == token_calls[c]
       IN  call.pc \in {"returned", "raised"} =>
              (call.value = Raised("RuntimeError")
                 <=> Failed(call) = CyclicConfigured(call.start_idx))

\* C26 (as claimed): under every interleaving _current_sentinel_idx is an
\* index of SENTINEL_CREDS and, once a call has returned a token, the index
\* of a configured set, that of the token returned last; a call that
\* returned has a token, and no call passed over a configured set.
C26_IndexIsLastReturnedToken ==
    /\ current_sentinel_idx \in CredIdx
    /\ token_log.access_token.kind = "access_token" =>
          /\ current_sentinel_idx = token_log.access_token.idx
          /\ SENTINEL_CREDS[current_sentinel_idx]
    /\ \A c \in Callers :
          /\ token_calls[c].pc = "returned" =>
                token_calls[c].value.kind = "access_token"
          /\ IsPrefix(token_calls[c].requests,
                      CyclicConfigured(token_calls[c].start_idx))

\* What holds of C26 under every interleaving: the index is in range and is
\* that of a configured set once any set has answered 2xx, returned calls
\* have a token, and no configured set is passed over.
C26_IndexInRange ==
    /\ current_sentinel_idx \in CredIdx
    /\ token_log.access_token.kind = "access_token" =>
          SENTINEL_CREDS[current_sentinel_idx]
    /\ \A c \in Callers :
          /\ token_calls[c].pc = "returned" =>
                token_calls[c].value.kind = "access_token"
          /\ IsPrefix(token_calls[c].requests,
                      CyclicConfigured(token_calls[c].start_idx))

-----------------------------------------------------------------------------
(* Specification and properties of the Gemini wrappers *)

NextGemini ==
    \/ generate_content /\ UNCHANGED handler_vars
    \/ send_message /\ UNCHANGED handler_vars

InitGeminiKeys ==
    /\ InitHandlers
    /\ InitSentinel(AllConfigured)
    /\ \E keys \in [KeyIdx -> BOOLEAN] : InitGemini(keys)
    /\ InitChat
    /\ InitHistory

SpecGemini == InitGeminiKeys /\ [][NextGemini]_vars

\* The configured keys in cyclic order from start_idx.
CyclicKeys(start_idx) ==
    LET configured(idx) == GEMINI_KEYS[idx]
    IN  SelectSeq([j \in 1..NKeys |-> (start_idx + j - 1) % NKeys], configured)

\* C27: a call of generate_content or send_message returns a result
\* whenever a configured key answers with one and every configured key
\* before it, in cyclic order from the key of the wrapper, fails with a
\* quota error; the request that gave the result was made under key idx by
\* the model (the chat session) configured for key idx, and on return the
\* wrapper's _current_key_idx and _current_gemini_idx are idx; an exception
\* that is no quota error is raised from the key that met it, no further key
\* being asked.
C27_FallbackReturnsAndAgreesOnKey ==
    LET call == gemini_call
        keys == CyclicKeys(call.start_idx)
        n == Len(call.requests)
        asked == [k \in 1..n |-> call.requests[k].idx]
        OnlyQuotaBefore(k) == \A j \in 1..(k - 1) : call.answers[keys[j]] = "quota"
    IN  call.op # "none" =>
           /\ IsPrefix(asked, keys)
           /\ \A k \in 1..Len(keys) :
                 (call.answers[keys[k]] = "result" /\ OnlyQuotaBefore(k))
                    => call.value = [kind |-> "result", idx |-> keys[k]]
           /\ call.value.kind = "result" =>
                 /\ call.requests[n] = [idx |-> call.value.idx, key |-> call.value.idx]
                 /\ model = configure_current_key(call.value.idx)
                 /\ current_gemini_idx = call.value.idx
                 /\ call.op = "send_message" => call.session = call.value.idx
           /\ \A k \in 1..Len(keys) :
                 (call.answers[keys[k]] = "error" /\ OnlyQuotaBefore(k))
                    => /\ call.value = Raised("Exception")
                       /\ n = k

\* send_message began under key 1, met quota errors under keys 1 and 2 and
\* returned the result of key 0 from a chat session restarted under key 0.
C27_Witness ==
    /\ gemini_call.op = "send_message"
    /\ gemini_call.start_idx = 1
    /\ gemini_call.value = [kind |-> "result", idx |-> 0]
    /\ gemini_call.requests =
          <<[idx |-> 1, key |-> 1], [idx |-> 2, key |-> 2], [idx |-> 0, key |-> 0]>>

\* generate_content raised an exception that is no quota error from key 0
\* while key 1 would have given a result.
C27_WitnessRaise ==
    /\ gemini_call.op = "generate_content"
    /\ gemini_call.value = Raised("Exception")
    /\ Len(gemini_call.requests) = 1
    /\ GEMINI_KEYS[1]
    /\ gemini_call.answers[1] = "result"

-----------------------------------------------------------------------------
(* Specifications and properties of the chat endpoints *)

NextChat ==
    \/ chat /\ UNCHANGED handler_vars
    \/ chat_geocoded /\ UNCHANGED handler_vars
    \/ chat_api_returned /\ UNCHANGED handler_vars
    \/ chat_respond /\ UNCHANGED handler_vars

SpecChat == Init /\ [][NextChat]_vars

NextChatHistory ==
    \/ get_chat_history /\ UNCHANGED handler_vars
    \/ save_chat_history /\ UNCHANGED handler_vars
    \/ delete_chat /\ UNCHANGED handler_vars

SpecChatHistory == Init /\ [][NextChatHistory]_vars

\* The calls of fn a chat request has made so far.
CallsOf(fn) == {k \in DOMAIN chat_req.calls : chat_req.calls[k].fn = fn}

C28_WitnessError ==
    /\ chat_pc = "responded"
    /\ chat_req.api_results = "error"
    /\ Len(chat_req.calls) = 1

\* Some stored chat has the id.
Stored(chat_id) ==
    /\ chat_history_file.exists
    /\ \E k \in DOMAIN chat_history_file.chats :
          chat_history_file.chats[k].id = chat_id

\* The step is a call of delete_chat(chat_id).
Deletes(chat_id) ==
    /\ history_response'.op = "delete_chat"
    /\ history_response'.chat_id = chat_id
    /\ history_response' # history_response \/ chat_history_file' # chat_history_file

\* C29 (as claimed): delete_chat(chat_id) responds 404 whenever no stored
\* chat has the id, the history file missing or not; otherwise it removes
\* exactly the chats of that id and leaves the others as they are and in
\* their order; save_chat_history stores the list it is given and
\* get_chat_history returns the stored list without changing it.
C29_DeleteRespondsNotFoundOrRemoves ==
    [][/\ \A chat_id \in ChatIds :
             Deletes(chat_id) =>
                IF Stored(chat_id)
                THEN /\ history_response'.status = 200
                     /\ chat_history_file'.exists
                     /\ chat_history_file'.chats =
                           without(chat_history_file.chats, chat_id)
                ELSE /\ history_response'.status = 404
                     /\ chat_history_file' = chat_history_file
       /\ history_response'.op = "get_chat_history" =>
             /\ chat_history_file' = chat_history_file
             /\ history_response'.chats = chat_history_file.chats]_vars

\* What holds of C29: 404 when there is no history file; otherwise exactly
\* the chats of the id are removed (none when no chat has it), the others
\* staying as they are and in their order; get_chat_history returns the
\* stored list.
C29_DeleteRemovesExactlyTheId ==
    [][/\ \A chat_id \in ChatIds :
             Deletes(chat_id) =>
                IF chat_history_file.exists
                THEN /\ history_response'.status = 200
                     /\ chat_history_file'.exists
                     /\ \A k \in DOMAIN chat_history_file'.chats :
                           chat_history_file'.chats[k].id # chat_id
                     /\ chat_history_file'.chats =
                           without(chat_history_file.chats, chat_id)
                ELSE /\ history_response'.status = 404
                     /\ chat_history_file' = chat_history_file
       /\ history_response'.op = "get_chat_history" =>
             /\ chat_history_file' = chat_history_file
             /\ history_response'.chats = chat_history_file.chats]_vars

=============================================================================
